---- MODULE Spec2Model ----
(***************************************************************************)
(* Model of src/queryable/query_result/mod.rs: the QueryResult reader      *)
(* (get_row_raw, get_row, the collection family, drop_result) and the      *)
(* connection-level result-set classification (read_result_set,            *)
(* handle_local_infile, handle_result_set).                                *)
(*                                                                         *)
(* The program is one sequential async task.  Its position is `pc` plus a  *)
(* `stack` of return labels.  The code between two call/return points is   *)
(* an operator from task state to task state; an action is one await on    *)
(* the outside world (a packet read or write, the infile handler, the      *)
(* caller invoking a method) followed by the code that runs up to the next *)
(* await.                                                                  *)
(***************************************************************************)
EXTENDS Integers, Sequences, FiniteSets, TLC

\* ---------------------------------------------------------------- bounds
\* Statements in one query, at most.
MaxSets == 2
\* Rows the server returns for one query, over all its result sets, at most.
MaxRows == 2
\* Full chunks in the file a local-infile handler serves, at most.
MaxChunks == 1

\* ------------------------------------------------------ program constants
\* let mut buf = [0; 4096];
ChunkSize == 4096

\* -------------------------------------------------------- option values
None == <<>>
Some(x) == <<x>>
IsSome(o) == o # <<>>
Unwrap(o) == o[1]

\* -------------------------------------------------------------- results
Ok(v) == [ok |-> TRUE, err |-> "", val |-> v]
Err(e) == [ok |-> FALSE, err |-> e, val |-> <<>>]

\* ------------------------------------------------------ packets on the wire
\* t: "hdr" column-count header, "col" column definition, "row", "eof"
\* result-set terminator, "ok" OK packet, "infile" local-infile request,
\* "ack" the OK packet that acknowledges an upload.
Pkt(t, rs, k, conv, more, n) ==
    [t |-> t, rs |-> rs, k |-> k, conv |-> conv, more |-> more, n |-> n]

\* Leading byte of a packet, as read_result_set inspects it.  A column count
\* of zero can only come in the three-byte form of a length-encoded integer
\* (0xFC 0x00 0x00): in the one-byte form the packet would be an OK packet.
FirstByte(p) ==
    CASE p.t \in {"ok", "ack"} -> 0
      [] p.t = "infile" -> 251
      [] p.t = "eof" -> 254
      [] p.t = "hdr" -> IF p.n = 0 THEN 252 ELSE p.n
      [] p.t = "col" -> 3
      [] OTHER -> 1

Protocols == {"Text", "Binary"}

\* A batch of several statements is a text query; one statement may also be
\* a prepared statement, executed over the binary protocol.
ProtocolsFor(ds) == IF Len(ds) > 1 THEN {"Text"} ELSE Protocols

\* P::is_last_result_set_packet
is_last_result_set_packet(p) == FirstByte(p) = 254

\* P::result_set_meta: ResultSetMeta::Text(columns) or ::Binary(columns)
result_set_meta(P, columns) == [proto |-> P, columns |-> columns]

\* ResultSetMeta::columns
columns_of(meta) == meta.columns

\* P::read_result_set_row: decodes a row packet against a column set; any
\* other packet is malformed as a row.
read_result_set_row(p, columns) ==
    IF p.t = "row"
    THEN Ok([rs |-> p.rs, k |-> p.k, conv |-> p.conv, columns |-> columns])
    ELSE Err("malformed")

\* FromRow::from_row_opt
from_row_opt(row) == [rs |-> row.rs, k |-> row.k, good |-> row.conv]

\* --------------------------------------------------- server responses
BoolSeqs(n) == UNION {[1..m -> BOOLEAN] : m \in 0..n}

\* Columns the i-th statement of a batch selects: two, one, two, ...
NumCols(i) == 1 + (i % 2)

\* What one statement of a batch is answered with: an OK packet, a
\* local-infile request, or a result set whose rows are each convertible to
\* the caller's type or not.
Stmts ==
    {[kind |-> "ok", convs |-> <<>>], [kind |-> "infile", convs |-> <<>>]}
    \cup {[kind |-> "rs", convs |-> cs] : cs \in BoolSeqs(MaxRows)}

\* A statement answered with a result-set header that counts zero columns.
ZeroCols == [kind |-> "rs0", convs |-> <<>>]

RECURSIVE RowsFrom(_, _)
RowsFrom(ds, i) == IF i > Len(ds) THEN 0 ELSE Len(ds[i].convs) + RowsFrom(ds, i + 1)

\* Batches of at most MaxSets statements that return at most MaxRows rows in all.
Batches ==
    {ds \in UNION {[1..m -> Stmts] : m \in 1..MaxSets} : RowsFrom(ds, 1) <= MaxRows}

\* Such batches in which the server answers some statement with a header of
\* zero columns.
ZeroColBatches ==
    {ds \in UNION {[1..m -> Stmts \cup {ZeroCols}] : m \in 1..MaxSets} :
        /\ RowsFrom(ds, 1) <= MaxRows
        /\ \E i \in 1..Len(ds) : ds[i] = ZeroCols}

\* The packets the server sends for statement i of a batch.
StmtPackets(d, i, more) ==
    CASE d.kind = "ok" -> <<Pkt("ok", i, 0, TRUE, more, 0)>>
      [] d.kind = "infile" ->
            <<Pkt("infile", i, 0, TRUE, FALSE, 0), Pkt("ack", i, 0, TRUE, more, 0)>>
      [] d.kind = "rs0" -> <<Pkt("hdr", i, 0, TRUE, FALSE, 0)>>
      [] OTHER ->
            <<Pkt("hdr", i, 0, TRUE, FALSE, NumCols(i))>>
            \o [j \in 1..NumCols(i) |-> Pkt("col", i, j, TRUE, FALSE, 0)]
            \o [j \in 1..Len(d.convs) |-> Pkt("row", i, j, d.convs[j], FALSE, 0)]
            \o <<Pkt("eof", i, 0, TRUE, more, 0)>>

RECURSIVE ResponseFrom(_, _)
ResponseFrom(ds, i) ==
    IF i > Len(ds) THEN <<>>
    ELSE StmtPackets(ds[i], i, i < Len(ds)) \o ResponseFrom(ds, i + 1)

Response(ds) == ResponseFrom(ds, 1)

HasInfile(ds) == \E i \in 1..Len(ds) : ds[i].kind = "infile"

\* Lengths of the file the handler's source holds.
FileLens == {k * ChunkSize + d : k \in 0..MaxChunks, d \in {0, 1}}

\* ---------------------------------------------------------------- state
VARIABLES
    batch,        \* the statements of the query, as the server answers them
    resp,         \* every packet of the server's response, in order
    wire,         \* the packets not yet read
    sent,         \* payload lengths of the packets written, not yet acknowledged
    pending,      \* Conn's pending result: Option<ResultSetMeta>
    status_more,  \* StatusFlags::SERVER_MORE_RESULTS_EXISTS
    seq_id,       \* packet sequence id
    synced,       \* sync_seq_id ran since the last packet was framed
    alive,        \* the connection's stream is open: no I/O error so far
    P,            \* the reader's protocol variant
    handler,      \* opts().local_infile_handler() is Some
    file_len,     \* bytes the source opened last holds
    short_reads,  \* the source opened last may return short reads
    src_left,     \* bytes the open source has left
    payload,      \* the slices of the source written by the upload in progress
    cols_left,    \* column definitions read_column_defs has still to read
    packet,       \* the packet handle_result_set was given
    pc, stack,    \* position of the task and its return labels
    op,           \* the operation in flight (or the last one)
    ret,          \* value returned by the last call that returned
    acc,          \* accumulator of the collection in progress
    output,       \* `output` of the _and_drop operation in progress
    result,       \* Option of the result of the last completed operation
    reader,       \* a QueryResult exists and has not been consumed
    io,           \* packet reads and writes attempted by the operation
    failed,       \* the first error met by the operation, "" when none
    seen,         \* the accessor the caller called last, and what it returned
    start         \* connection state when the operation started

vars == <<batch, resp, wire, sent, pending, status_more, seq_id, synced, alive, P, handler,
          file_len, short_reads, src_left, payload, cols_left, packet, pc, stack, op, ret,
          acc, output, result, reader, io, failed, seen, start>>

NoPacket == Pkt("none", 0, 0, TRUE, FALSE, 0)

Pos == Len(resp) - Len(wire)

Snapshot ==
    [pending |-> pending, pos |-> Pos, more |-> status_more, seq_id |-> seq_id,
     synced |-> synced, nsent |-> Len(sent)]

NoSnapshot ==
    [pending |-> None, pos |-> 0, more |-> FALSE, seq_id |-> 0, synced |-> FALSE,
     nsent |-> 0]

\* No accessor was called since the last operation.
NoSeen == [f |-> "none", v |-> <<>>]

\* The connection after a query of one of the batches bs was sent.
InitFrom(bs) ==
    /\ batch \in bs
    /\ resp = Response(batch)
    /\ wire = resp
    /\ sent = <<>>
    /\ pending = None
    /\ status_more = FALSE
    /\ seq_id = 1
    /\ synced = FALSE
    /\ alive = TRUE
    /\ P \in ProtocolsFor(batch)
    /\ handler \in BOOLEAN
    /\ ~HasInfile(batch) => handler
    /\ file_len = 0
    /\ short_reads = FALSE
    /\ src_left = 0
    /\ payload = <<>>
    /\ cols_left = 0
    /\ packet = NoPacket
    /\ pc = "read_result_set"
    /\ stack = <<>>
    /\ op = "query"
    /\ ret = Ok(<<>>)
    /\ acc = <<>>
    /\ output = <<>>
    /\ result = None
    /\ reader = FALSE
    /\ io = 0
    /\ failed = ""
    /\ seen = NoSeen
    /\ start = NoSnapshot

Init == InitFrom(Batches)

\* The state of the task and its connection, as one value.
St ==
    [wire |-> wire, sent |-> sent, pending |-> pending, status_more |-> status_more,
     seq_id |-> seq_id, synced |-> synced, alive |-> alive, file_len |-> file_len,
     short_reads |-> short_reads, src_left |-> src_left, payload |-> payload,
     cols_left |-> cols_left,
     packet |-> packet, pc |-> pc, stack |-> stack, op |-> op, ret |-> ret,
     acc |-> acc, output |-> output, result |-> result, reader |-> reader,
     io |-> io, failed |-> failed, seen |-> seen, start |-> start]

Store(s) ==
    /\ wire' = s.wire
    /\ sent' = s.sent
    /\ pending' = s.pending
    /\ status_more' = s.status_more
    /\ seq_id' = s.seq_id
    /\ synced' = s.synced
    /\ alive' = s.alive
    /\ file_len' = s.file_len
    /\ short_reads' = s.short_reads
    /\ src_left' = s.src_left
    /\ payload' = s.payload
    /\ cols_left' = s.cols_left
    /\ packet' = s.packet
    /\ pc' = s.pc
    /\ stack' = s.stack
    /\ op' = s.op
    /\ ret' = s.ret
    /\ acc' = s.acc
    /\ output' = s.output
    /\ result' = s.result
    /\ reader' = s.reader
    /\ io' = s.io
    /\ failed' = s.failed
    /\ seen' = s.seen
    /\ start' = s.start
    /\ UNCHANGED <<batch, resp, P, handler>>

\* ------------------------------------------------------- call and return
\* Operations that take the reader by value (`mut self`).
Consumes(o) ==
    o \in {"drop_result", "collect_and_drop", "try_collect_and_drop",
           "for_each_and_drop", "map_and_drop", "reduce_and_drop"}

\* The function at the top of the stack returns v to its caller; the
\* outermost return completes the operation.
Return(s, v) ==
    IF s.stack = <<>>
    THEN [s EXCEPT !.ret = v, !.pc = "done",
                   !.result = Some([op |-> s.op, r |-> v]),
                   !.reader = IF s.op = "query" THEN v.ok ELSE (@ /\ ~Consumes(s.op))]
    ELSE [s EXCEPT !.ret = v, !.pc = Head(s.stack), !.stack = Tail(s.stack)]

\* `callee().await`, continuing at `back` when it returns.
Call(s, callee, back) == [s EXCEPT !.pc = callee, !.stack = <<back>> \o @]

\* A panic unwinds the task; the reader is gone.
Panic(s) == [s EXCEPT !.pc = "panicked", !.reader = FALSE]

\* ------------------------------------------------ connection collaborator
IsAck(p) == p.t = "ack"

\* Conn::write_packet can succeed: the stream is open.
CanWrite(s) == s.alive

\* Conn::read_packet can deliver a packet: the stream is open and the server
\* has sent one.  The server acknowledges an upload once it has seen its
\* empty packet.
CanRead(s) ==
    /\ s.alive
    /\ s.wire # <<>>
    /\ IsAck(Head(s.wire)) => \E i \in 1..Len(s.sent) : s.sent[i] = 0

\* Conn::read_packet delivering p: OK and EOF packets carry the status flags.
\* The acknowledgement tells that the server has taken the upload.
Received(s, p) ==
    [s EXCEPT !.wire = Tail(@),
              !.sent = IF IsAck(p) THEN <<>> ELSE @,
              !.seq_id = (@ + 1) % 256,
              !.synced = FALSE,
              !.status_more = IF p.t \in {"ok", "eof", "ack"} THEN p.more ELSE @,
              !.io = @ + 1]

\* An error value comes into being: e is remembered if it is the first.
Fail(s, e) == [s EXCEPT !.failed = IF @ = "" THEN e ELSE @]

\* Conn::read_packet or Conn::write_packet failing with an I/O error, which
\* is fatal for the connection: its stream is closed.
IoFailed(s) == Fail([s EXCEPT !.io = @ + 1, !.alive = FALSE], "io")

\* Conn::write_packet of a payload of n bytes.
Written(s, n) ==
    [s EXCEPT !.sent = Append(@, n), !.seq_id = (@ + 1) % 256, !.synced = FALSE,
              !.io = @ + 1]

\* Conn::sync_seq_id
sync_seq_id(s) == [s EXCEPT !.synced = TRUE]

\* Conn::set_pending_result
set_pending_result(s, m) == [s EXCEPT !.pending = m]

\* ----------------------------------------------------------- QueryResult
meta(s) == s.pending

has_rows(s) == IsSome(meta(s))

is_empty(s) == ~has_rows(s)

make_empty(s) == set_pending_result(s, None)

more_results_exists(s) == s.status_more

columns_ref(s) == IF IsSome(meta(s)) THEN Some(columns_of(Unwrap(meta(s)))) ELSE None

columns(s) == IF IsSome(meta(s)) THEN Some(columns_of(Unwrap(meta(s)))) ELSE None

\* The accessors that take `&self`.
Accessors == {"is_empty", "columns_ref", "columns"}

\* accessor taking the pending result out of the connection as it reads it
accessor_takes(s, f) ==
    [make_empty(s) EXCEPT !.seen =
        [f |-> f,
         v |-> CASE f = "is_empty" -> <<is_empty(s)>>
                 [] f = "columns_ref" -> columns_ref(s)
                 [] f = "columns" -> columns(s)]]

\* A call of accessor f: the value goes to the caller.
accessor(s, f) ==
    [s EXCEPT !.seen =
        [f |-> f,
         v |-> CASE f = "is_empty" -> <<is_empty(s)>>
                 [] f = "columns_ref" -> columns_ref(s)
                 [] f = "columns" -> columns(s)]]

\* get_row_raw reading a packet whether or not a result set is pending
get_row_raw_always_reads(s) == [s EXCEPT !.pc = "get_row_raw_read"]

\* get_row_raw, up to `read_packet().await`
get_row_raw(s) ==
    IF is_empty(s) THEN Return(s, Ok(None)) ELSE [s EXCEPT !.pc = "get_row_raw_read"]

\* get_row_raw_packet forgetting make_empty at the end of the last result set
get_row_raw_packet_no_make_empty(s, p) ==
    IF is_last_result_set_packet(p)
    THEN IF more_results_exists(s)
         THEN Call(sync_seq_id(s), "read_result_set", "get_row_raw_ret")
         ELSE Return(s, Ok(None))
    ELSE Return(s, Ok(Some(p)))

\* get_row_raw, from the packet read to its call or return
get_row_raw_packet(s, p) ==
    IF is_last_result_set_packet(p)
    THEN IF more_results_exists(s)
         THEN Call(sync_seq_id(s), "read_result_set", "get_row_raw_ret")
         ELSE Return(make_empty(s), Ok(None))
    ELSE Return(s, Ok(Some(p)))

\* get_row_raw_ret going on to pull from the next result set
get_row_raw_ret_pull_on(s) ==
    IF ~s.ret.ok THEN Return(s, s.ret) ELSE [s EXCEPT !.pc = "get_row_raw"]

\* get_row_raw after `read_result_set::<P>().await?`
get_row_raw_ret(s) == IF ~s.ret.ok THEN Return(s, s.ret) ELSE Return(s, Ok(None))

\* get_row, up to `self.get_row_raw().await`
get_row(s) == Call(s, "get_row_raw", "get_row_ret")

\* get_row after `self.get_row_raw().await?`
get_row_ret(s) ==
    IF ~s.ret.ok THEN Return(s, s.ret)
    ELSE IF IsSome(s.ret.val)
         THEN IF ~IsSome(meta(s)) THEN Panic(Fail(s, "must be here"))
              ELSE LET row == read_result_set_row(Unwrap(s.ret.val),
                                                  columns_of(Unwrap(meta(s))))
                   IN  IF row.ok THEN Return(s, Ok(Some(row.val)))
                       ELSE Return(Fail(s, row.err), row)
         ELSE Return(s, Ok(None))

\* The closure a collection operation runs on each row.
Family(o) ==
    CASE o \in {"collect", "collect_and_drop"} -> "collect"
      [] o \in {"try_collect", "try_collect_and_drop"} -> "try_collect"
      [] o \in {"reduce", "reduce_and_drop"} -> "reduce"
      [] o \in {"map", "map_and_drop"} -> "map"
      [] o \in {"for_each", "for_each_and_drop"} -> "for_each"
      [] OTHER -> o

\* reduce_fun with a try_collect that leaves out the rows it cannot convert
reduce_fun_skip_failures(family, a, row) ==
    IF row.conv THEN Some(Append(a, from_row_opt(row)))
    ELSE IF family = "try_collect" THEN Some(a) ELSE None

\* `fun(acc, crate::from_row(row))` with the closure of collect or of
\* try_collect, or the user's; None when a conversion panics.
reduce_fun(family, a, row) ==
    CASE family = "try_collect" -> Some(Append(a, from_row_opt(row)))
      [] OTHER -> IF row.conv THEN Some(Append(a, from_row_opt(row))) ELSE None

\* reduce, up to its first get_row
reduce(s) ==
    IF is_empty(s) THEN Return(s, Ok(<<>>))
    ELSE Call([s EXCEPT !.acc = <<>>], "get_row", "reduce_ret")

\* reduce_ret returning what it has accumulated when get_row fails
reduce_ret_partial(s) ==
    IF ~s.ret.ok THEN Return(s, Ok(s.acc))
    ELSE IF IsSome(s.ret.val)
         THEN LET a == reduce_fun(Family(s.op), s.acc, Unwrap(s.ret.val))
              IN  IF IsSome(a)
                  THEN Call([s EXCEPT !.acc = Unwrap(a)], "get_row", "reduce_ret")
                  ELSE Panic(s)
         ELSE Return(s, Ok(s.acc))

\* reduce after `self.get_row().await?`
reduce_ret(s) ==
    IF ~s.ret.ok THEN Return(s, s.ret)
    ELSE IF IsSome(s.ret.val)
         THEN LET a == reduce_fun(Family(s.op), s.acc, Unwrap(s.ret.val))
              IN  IF IsSome(a)
                  THEN Call([s EXCEPT !.acc = Unwrap(a)], "get_row", "reduce_ret")
                  ELSE Panic(s)
         ELSE Return(s, Ok(s.acc))

\* The user's closure given to map and for_each.
user_fun(row) == [rs |-> row.rs, k |-> row.k, good |-> TRUE]

\* map, up to its first get_row
map(s) ==
    IF is_empty(s) THEN Return(s, Ok(<<>>))
    ELSE Call([s EXCEPT !.acc = <<>>], "get_row", "map_ret")

\* map after `self.get_row().await?`
map_ret(s) ==
    IF ~s.ret.ok THEN Return(s, s.ret)
    ELSE IF IsSome(s.ret.val)
         THEN Call([s EXCEPT !.acc = Append(@, user_fun(Unwrap(s.ret.val)))],
                   "get_row", "map_ret")
         ELSE Return(s, Ok(s.acc))

\* for_each, up to its first get_row; acc is what `fun` has been given
for_each(s) ==
    IF is_empty(s) THEN Return(s, Ok(<<>>))
    ELSE Call([s EXCEPT !.acc = <<>>], "get_row", "for_each_ret")

\* for_each after `self.get_row().await?`
for_each_ret(s) ==
    IF ~s.ret.ok THEN Return(s, s.ret)
    ELSE IF IsSome(s.ret.val)
         THEN Call([s EXCEPT !.acc = Append(@, user_fun(Unwrap(s.ret.val)))],
                   "get_row", "for_each_ret")
         ELSE Return(s, Ok(<<>>))

\* First label of the operation an _and_drop operation runs first.
Inner(o) ==
    CASE Family(o) \in {"collect", "try_collect", "reduce"} -> "reduce"
      [] OTHER -> Family(o)

\* X_and_drop, up to `self.X().await`
and_drop(s) == Call(s, Inner(s.op), "and_drop_ret")

\* and_drop_ret returning the output without draining
and_drop_ret_no_drop(s) ==
    IF ~s.ret.ok THEN Return(s, s.ret) ELSE Return(s, Ok(s.ret.val))

\* X_and_drop after `self.X().await?`
and_drop_ret(s) ==
    IF ~s.ret.ok THEN Return(s, s.ret)
    ELSE Call([s EXCEPT !.output = s.ret.val], "drop_result", "and_drop_fin")

\* X_and_drop after `self.drop_result().await?`
and_drop_fin(s) == IF ~s.ret.ok THEN Return(s, s.ret) ELSE Return(s, Ok(s.output))

\* drop_result breaking as soon as no result set is pending
drop_result_no_more_check(s) ==
    IF ~has_rows(s) THEN Return(make_empty(s), Ok(<<>>))
    ELSE Call(s, "get_row_raw", "drop_result_ret")

\* One turn of drop_result's loop, up to its call or break
drop_result(s) ==
    IF ~has_rows(s)
    THEN IF more_results_exists(make_empty(s))
         THEN Call(make_empty(s), "read_result_set", "drop_result_ret")
         ELSE Return(make_empty(s), Ok(<<>>))
    ELSE Call(s, "get_row_raw", "drop_result_ret")

\* drop_result_ret returning after one turn of the loop
drop_result_ret_one_turn(s) == IF ~s.ret.ok THEN Return(s, s.ret) ELSE Return(s, Ok(<<>>))

\* drop_result after `read_result_set().await?` or `get_row_raw().await?`
drop_result_ret(s) ==
    IF ~s.ret.ok THEN Return(s, s.ret) ELSE [s EXCEPT !.pc = "drop_result"]

\* ------------------------------------------------------------------ Conn
\* read_result_set, from the packet read to the match arm taken
read_result_set_packet(s, p) ==
    CASE FirstByte(p) = 0 -> Return(set_pending_result(s, None), Ok(<<>>))
      [] FirstByte(p) = 251 -> [s EXCEPT !.pc = "handle_local_infile", !.packet = p]
      [] OTHER -> [s EXCEPT !.pc = "handle_result_set", !.packet = p]

\* handle_local_infile clearing the pending result before it gives up
handle_local_infile_clears(s) ==
    IF ~handler
    THEN Return(Fail(set_pending_result(s, None), "NoLocalInfileHandler"),
                Err("NoLocalInfileHandler"))
    ELSE [s EXCEPT !.pc = "handler_handle"]

\* handle_local_infile, up to `handler.handle(..).await`
handle_local_infile(s) ==
    IF ~handler
    THEN Return(Fail(s, "NoLocalInfileHandler"), Err("NoLocalInfileHandler"))
    ELSE [s EXCEPT !.pc = "handler_handle"]

\* `reader` goes out of scope when handle_local_infile returns.
CloseSource(s) ==
    [s EXCEPT !.src_left = 0, !.file_len = 0, !.short_reads = FALSE, !.payload = <<>>]

Min(a, b) == IF a < b THEN a ELSE b

\* What `reader.read(&mut buf[..])` may return: 0 at the end of the source,
\* else as much as fits the buffer, or half of that from a source that
\* returns short reads.
ReadSizes(s) ==
    IF s.src_left = 0 THEN {0}
    ELSE {Min(IF s.short_reads THEN ChunkSize \div 2 ELSE ChunkSize, s.src_left)}

\* buf_read taking the whole buffer for the chunk
buf_whole(s, read) == [off |-> s.file_len - s.src_left, len |-> ChunkSize]

\* `&buf[..read]` after `reader.read(&mut buf[..])` returned read: the next
\* read bytes of the source, as the slice of the source from offset off.
buf_read(s, read) == [off |-> s.file_len - s.src_left, len |-> read]

\* last_chunk taking any read shorter than the buffer for the last one
last_chunk_short_read(read) == read < ChunkSize

\* The upload loop breaks after the packet that carried `read` bytes.
last_chunk(read) == read = 0

\* infile_written leaving the loop after any chunk that does not fill the buffer
infile_written_stops_at_short(s, read) ==
    IF read < ChunkSize THEN [s EXCEPT !.pc = "infile_ack"]
    ELSE [s EXCEPT !.pc = "infile_loop"]

\* The upload loop after `write_packet(&buf[..read]).await?`
infile_written(s, read) ==
    IF last_chunk(read) THEN [s EXCEPT !.pc = "infile_ack"]
    ELSE [s EXCEPT !.pc = "infile_loop"]

\* infile_acked returning without set_pending_result(None)
infile_acked_keeps_pending(s) == Return(CloseSource(s), Ok(<<>>))

\* handle_local_infile after the acknowledgement was read
infile_acked(s) == Return(CloseSource(set_pending_result(s, None)), Ok(<<>>))

\* packet.read_lenenc_int()
read_lenenc_int(p) ==
    IF FirstByte(p) < 251 THEN Ok(<<FirstByte(p)>>)
    ELSE IF FirstByte(p) = 252 THEN Ok(<<p.n>>)
    ELSE Err("malformed")

\* handle_result_set, up to read_column_defs
handle_result_set(s) ==
    LET column_count == read_lenenc_int(s.packet)
    IN  IF column_count.ok
        THEN [s EXCEPT !.cols_left = Unwrap(column_count.val), !.pc = "read_column_defs"]
        ELSE Return(Fail(s, column_count.err), column_count)

\* Conn::read_column_defs, between two packet reads
read_column_defs(s) ==
    IF s.cols_left = 0 THEN [s EXCEPT !.pc = "handle_result_set_end"]
    ELSE [s EXCEPT !.pc = "read_column_def"]

\* Conn::read_column_defs taking one packet
read_column_defs_packet(s, p) ==
    IF p.t = "col" THEN [s EXCEPT !.cols_left = @ - 1, !.pc = "read_column_defs"]
    ELSE Return(Fail(s, "malformed"), Err("malformed"))

\* handle_result_set_end leaving in place the result set that is pending
handle_result_set_end_keeps_pending(s) ==
    LET column_count == Unwrap(read_lenenc_int(s.packet).val)
        column_defs == [rs |-> s.packet.rs, n |-> column_count]
    IN  IF IsSome(s.pending) THEN Return(s, Ok(<<>>))
        ELSE IF column_count > 0
        THEN Return(set_pending_result(s, Some(result_set_meta(P, column_defs))), Ok(<<>>))
        ELSE Return(set_pending_result(s, None), Ok(<<>>))

\* handle_result_set_end recording a result set whatever the column count
handle_result_set_end_always_some(s) ==
    LET column_count == Unwrap(read_lenenc_int(s.packet).val)
        column_defs == [rs |-> s.packet.rs, n |-> column_count]
    IN  Return(set_pending_result(s, Some(result_set_meta(P, column_defs))), Ok(<<>>))

\* handle_result_set after `read_column_defs(..).await?`
handle_result_set_end(s) ==
    LET column_count == Unwrap(read_lenenc_int(s.packet).val)
        column_defs == [rs |-> s.packet.rs, n |-> column_count]
    IN  IF column_count > 0
        THEN Return(set_pending_result(s, Some(result_set_meta(P, column_defs))), Ok(<<>>))
        ELSE Return(set_pending_result(s, None), Ok(<<>>))

\* ------------------------------------------------------------ scheduling
\* Where the task waits for the outside world.
Awaits ==
    {"idle", "done", "panicked", "get_row_raw_read", "read_result_set", "handler_handle",
     "infile_loop", "infile_ack", "read_column_def"}

\* The code at s.pc, up to the next call, return or await.
Step(s) ==
    CASE s.pc = "get_row_raw" -> get_row_raw(s)
      [] s.pc = "get_row_raw_ret" -> get_row_raw_ret(s)
      [] s.pc = "get_row" -> get_row(s)
      [] s.pc = "get_row_ret" -> get_row_ret(s)
      [] s.pc = "reduce" -> reduce(s)
      [] s.pc = "reduce_ret" -> reduce_ret(s)
      [] s.pc = "map" -> map(s)
      [] s.pc = "map_ret" -> map_ret(s)
      [] s.pc = "for_each" -> for_each(s)
      [] s.pc = "for_each_ret" -> for_each_ret(s)
      [] s.pc = "and_drop" -> and_drop(s)
      [] s.pc = "and_drop_ret" -> and_drop_ret(s)
      [] s.pc = "and_drop_fin" -> and_drop_fin(s)
      [] s.pc = "drop_result" -> drop_result(s)
      [] s.pc = "drop_result_ret" -> drop_result_ret(s)
      [] s.pc = "handle_local_infile" -> handle_local_infile(s)
      [] s.pc = "handle_result_set" -> handle_result_set(s)
      [] s.pc = "read_column_defs" -> read_column_defs(s)
      [] s.pc = "handle_result_set_end" -> handle_result_set_end(s)

\* The task runs until it has to wait.
RECURSIVE Run(_)
Run(s) == IF s.pc \in Awaits THEN s ELSE Run(Step(s))

\* --------------------------------------------------------------- actions
Ops ==
    {"get_row", "collect", "try_collect", "reduce", "map", "for_each",
     "collect_and_drop", "try_collect_and_drop", "reduce_and_drop",
     "map_and_drop", "for_each_and_drop", "drop_result"}

\* First label of an operation.
Entry(o) == IF Consumes(o) /\ o # "drop_result" THEN "and_drop" ELSE Inner(o)

\* The caller invokes a method of the reader it holds.
StartOp(o) ==
    /\ pc = "idle"
    /\ reader
    /\ Store(Run([St EXCEPT !.op = o, !.start = Snapshot, !.pc = Entry(o),
                            !.seen = NoSeen]))

\* The caller calls an accessor of the reader it holds.
Access(f) ==
    /\ pc = "idle"
    /\ reader
    /\ Store(accessor(St, f))

\* The caller takes the value the operation returned; the operation's
\* locals are gone.
TakeResult ==
    /\ pc = "done"
    /\ Store([St EXCEPT !.pc = "idle", !.op = "none", !.start = NoSnapshot,
                        !.io = 0, !.failed = "", !.acc = <<>>, !.output = <<>>,
                        !.ret = Ok(<<>>), !.result = None, !.packet = NoPacket, !.cols_left = 0])

\* get_row_raw: `self.conn.conn_mut().read_packet().await?`
get_row_raw_read ==
    /\ pc = "get_row_raw_read"
    /\ \/ Store(Run(Return(IoFailed(St), Err("io"))))
       \/ /\ CanRead(St)
          /\ Store(Run(get_row_raw_packet(Received(St, Head(wire)), Head(wire))))

\* read_result_set: `self.read_packet().await?`
read_result_set ==
    /\ pc = "read_result_set"
    /\ \/ Store(Run(Return(IoFailed(St), Err("io"))))
       \/ /\ CanRead(St)
          /\ Store(Run(read_result_set_packet(Received(St, Head(wire)), Head(wire))))

\* handle_local_infile: `handler.handle(..).await?` opens a source or fails
handler_handle ==
    /\ pc = "handler_handle"
    /\ \/ Store(Run(Return(Fail(St, "handler"), Err("handler"))))
       \/ \E len \in FileLens, short \in BOOLEAN :
            Store(Run([St EXCEPT !.file_len = len, !.short_reads = short,
                                 !.src_left = len, !.pc = "infile_loop"]))

\* handle_local_infile: one turn of the loop, `reader.read(..).await?` and
\* `self.write_packet(&buf[..read]).await?`
infile_loop ==
    /\ pc = "infile_loop"
    /\ \/ Store(Run(Return(CloseSource(Fail(St, "source")), Err("source"))))
       \/ \E read \in ReadSizes(St) :
            \/ Store(Run(Return(CloseSource(IoFailed(St)), Err("io"))))
            \/ /\ CanWrite(St)
               /\ Store(Run(infile_written(
                       Written([St EXCEPT !.src_left = @ - read,
                                          !.payload = Append(@, buf_read(St, read))],
                               buf_read(St, read).len),
                       read)))

\* handle_local_infile: `self.read_packet().await?` for the acknowledgement
infile_ack ==
    /\ pc = "infile_ack"
    /\ \/ Store(Run(Return(CloseSource(IoFailed(St)), Err("io"))))
       \/ /\ CanRead(St)
          /\ Store(Run(infile_acked(Received(St, Head(wire)))))

\* read_column_defs: reading one column-definition packet
read_column_def ==
    /\ pc = "read_column_def"
    /\ \/ Store(Run(Return(IoFailed(St), Err("io"))))
       \/ /\ CanRead(St)
          /\ Store(Run(read_column_defs_packet(Received(St, Head(wire)), Head(wire))))

Next ==
    \/ \E o \in Ops : StartOp(o)
    \/ \E f \in Accessors : Access(f)
    \/ TakeResult
    \/ get_row_raw_read
    \/ read_result_set
    \/ handler_handle
    \/ infile_loop
    \/ infile_ack
    \/ read_column_def

Spec == Init /\ [][Next]_vars

\* A caller that pulls rows one at a time and then drops the result.
DrainOps == {"get_row", "drop_result"}

NextDrain ==
    \/ \E o \in DrainOps : StartOp(o)
    \/ TakeResult
    \/ get_row_raw_read
    \/ read_result_set
    \/ handler_handle
    \/ infile_loop
    \/ infile_ack
    \/ read_column_def

\* Where the task waits for the connection, the handler or the source.
IoAwaits == Awaits \ {"idle", "done", "panicked"}

\* An await completes, with a value or with an error: the task moves on or
\* its count of packet reads and writes grows.  Under NextDrain the steps
\* that start at an await and change <<pc, io>> are exactly the steps of
\* get_row_raw_read, read_result_set, handler_handle, infile_loop,
\* infile_ack and read_column_def, and one of them is enabled exactly when
\* pc is in IoAwaits (the failing outcome always is).
AwaitCompletes == pc \in IoAwaits /\ pc' \in Awaits /\ io' \in {io, io + 1}

\* Every await eventually completes.
IoCompletes == WF_<<pc, io>>(AwaitCompletes)

SpecDrain == Init /\ [][NextDrain]_vars /\ IoCompletes

\* The same program against a server that also sends zero-column headers.
SpecZeroCols == InitFrom(ZeroColBatches) /\ [][Next]_vars

\* ================================================================ claims
\* The result of the operation that has just completed.
Res == Unwrap(result).r

\* Packets of the response that precede the answer to statement i.
Before(i) == Len(resp) - Len(ResponseFrom(batch, i))

\* Packets that precede the first row of result set i.
RowsBegin(i) == Before(i) + 1 + NumCols(i)

NRows(i) == Len(batch[i].convs)

ColumnsOf(i) == [rs |-> i, n |-> NumCols(i)]

MetaOf(i) == [proto |-> P, columns |-> ColumnsOf(i)]

\* Row k of result set i, as the server sent it, decoded with i's columns.
RowOf(i, k) == [rs |-> i, k |-> k, conv |-> batch[i].convs[k], columns |-> ColumnsOf(i)]

\* In snapshot c the reader is inside result set i: its header is read, its
\* terminal packet is not.
InRows(c, i) ==
    /\ i \in 1..Len(batch)
    /\ batch[i].kind = "rs"
    /\ c.pending = Some(MetaOf(i))
    /\ c.pos \in RowsBegin(i)..(RowsBegin(i) + NRows(i))

\* Rows of result set i already pulled in snapshot c.
Pulled(c, i) == c.pos - RowsBegin(i)

AtHead(c, i) == InRows(c, i) /\ Pulled(c, i) = 0

AllRs == \A i \in 1..Len(batch) : batch[i].kind = "rs"

\* C1: in the last result set of a query, a get_row that returns after j
\* rows were pulled returns row j+1 as the server sent it and leaves j+1
\* rows pulled; once all N rows are pulled it returns None and is_empty()
\* is true.  So N successive calls give the N rows in order, the next None.
C1_RowsInOrder ==
    \A i \in 1..Len(batch) :
        (pc = "done" /\ op = "get_row" /\ i = Len(batch) /\ InRows(start, i) /\ Res.ok)
        => IF Pulled(start, i) < NRows(i)
           THEN /\ Res.val = Some(RowOf(i, Pulled(start, i) + 1))
                /\ InRows(Snapshot, i)
                /\ Pulled(Snapshot, i) = Pulled(start, i) + 1
           ELSE /\ Res.val = None
                /\ is_empty(St)

\* The third get_row on a last result set of two rows returned None.
C1_Witness ==
    /\ pc = "done" /\ op = "get_row" /\ Res.ok
    /\ InRows(start, Len(batch))
    /\ NRows(Len(batch)) = 2
    /\ Pulled(start, Len(batch)) = 2
    /\ Res.val = None
    /\ is_empty(St)

\* The values collect returns for result set i.
CollectedOf(i) == [k \in 1..NRows(i) |-> [rs |-> i, k |-> k, good |-> TRUE]]

\* C2: when a query of k >= 2 statements is answered by k result sets, the
\* reader starts at the head of the first; a collect started at the head of
\* result set i returns exactly the rows of i and leaves the reader at the
\* head of result set i+1 (so not empty), or empty when i = k.
C2_CollectPerResultSet ==
    /\ (pc = "done" /\ op = "query" /\ AllRs /\ Len(batch) >= 2 /\ Res.ok)
       => AtHead(Snapshot, 1)
    /\ \A i \in 1..Len(batch) :
        (pc = "done" /\ op = "collect" /\ AllRs /\ Len(batch) >= 2
            /\ AtHead(start, i) /\ Res.ok)
        => /\ Res.val = CollectedOf(i)
           /\ IF i < Len(batch) THEN AtHead(Snapshot, i + 1) /\ ~is_empty(St)
              ELSE is_empty(St)

\* The second collect on two result sets of one row each returned the
\* second one's row.
C2_Witness ==
    /\ pc = "done" /\ op = "collect" /\ Res.ok
    /\ AllRs /\ Len(batch) = 2 /\ NRows(1) = 1 /\ NRows(2) = 1
    /\ AtHead(start, 2)
    /\ Res.val = CollectedOf(2)
    /\ is_empty(St)

ReaderOps == {"get_row", "collect", "map", "reduce", "for_each"}

\* C3: after a reader operation has completed successfully, is_empty()
\* implies that the more-results flag is clear and that no response of the
\* query is left unread.
C3_EmptyMeansNoMore ==
    (pc = "done" /\ op \in ReaderOps /\ Res.ok /\ is_empty(St))
    => (~status_more /\ wire = <<>>)

\* The values collect returns for the rows of result set i after the j-th.
CollectedFrom(i, j) ==
    [k \in 1..(NRows(i) - j) |-> [rs |-> i, k |-> j + k, good |-> TRUE]]

\* Everything the server sent for the query has been read and no result
\* set is pending or flagged.
Drained == pending = None /\ ~status_more /\ wire = <<>>

\* C4: a collect_and_drop that returns successfully returns exactly the rows
\* of the result set that was current when it started (none when no result
\* set was pending) and leaves the query drained.
C4_CollectAndDrop ==
    (pc = "done" /\ op = "collect_and_drop" /\ Res.ok)
    => /\ Drained
       /\ \A i \in 1..Len(batch) :
            InRows(start, i) => Res.val = CollectedFrom(i, Pulled(start, i))
       /\ start.pending = None => Res.val = <<>>

\* collect_and_drop on two result sets of one row each returned the first
\* one's row and drained the second.
C4_Witness ==
    /\ pc = "done" /\ op = "collect_and_drop" /\ Res.ok
    /\ AllRs /\ Len(batch) = 2 /\ NRows(1) = 1 /\ NRows(2) = 1
    /\ AtHead(start, 1)
    /\ Res.val = CollectedOf(1)
    /\ Drained

\* C5: a drop_result that returns successfully, whatever state it started
\* from, leaves the query drained.
C5_DropResultDrains ==
    (pc = "done" /\ op = "drop_result" /\ Res.ok) => Drained

\* drop_result started with one row of the first result set pulled and a
\* second result set queued, and returned.
C5_Witness ==
    /\ pc = "done" /\ op = "drop_result" /\ Res.ok
    /\ AllRs /\ Len(batch) = 2 /\ NRows(1) = 2
    /\ InRows(start, 1) /\ Pulled(start, 1) = 1
    /\ start.more = FALSE
    /\ Drained

\* drop_result started with no result set pending and more results
\* flagged, and returned.
C5_WitnessFlagged ==
    /\ pc = "done" /\ op = "drop_result" /\ Res.ok
    /\ start.pending = None /\ start.more
    /\ Drained

CeilDiv(a, b) == (a + b - 1) \div b

Max(a, b) == IF a > b THEN a ELSE b

\* C6 as stated: with a source of L bytes that returns full chunks, the
\* uploader has written max(1, ceil(L / chunk_size)) packets when it turns
\* to the acknowledgement.
C6_Orig_PacketCount ==
    (pc = "infile_ack" /\ ~short_reads)
    => Len(sent) = Max(1, CeilDiv(file_len, ChunkSize))

\* C6 amended: with a source of L bytes that returns full chunks, the
\* uploader has written ceil(L / chunk_size) + 1 packets when it turns to the
\* acknowledgement: ceil(L / chunk_size) packets that carry data and then
\* one empty packet.
C6_PacketCount ==
    (pc = "infile_ack" /\ ~short_reads)
    => /\ Len(sent) = CeilDiv(file_len, ChunkSize) + 1
       /\ sent[Len(sent)] = 0
       /\ \A i \in 1..(Len(sent) - 1) : sent[i] > 0

\* A file of one chunk and one byte went out as three packets.
C6_Witness ==
    /\ pc = "infile_ack" /\ ~short_reads
    /\ file_len = ChunkSize + 1
    /\ sent = <<ChunkSize, 1, 0>>

\* What try_collect returns for the rows of result set i after the j-th.
TriedFrom(i, j) ==
    [k \in 1..(NRows(i) - j) |->
        [rs |-> i, k |-> j + k, good |-> batch[i].convs[j + k]]]

\* C7: a try_collect that returns successfully from inside result set i
\* returns one entry per remaining row, in row order, entry k a failure
\* exactly when row k is not convertible, and has read the rows and the
\* terminal packet of result set i.
C7_TryCollect ==
    \A i \in 1..Len(batch) :
        (pc = "done" /\ op = "try_collect" /\ Res.ok /\ InRows(start, i))
        => /\ Res.val = TriedFrom(i, Pulled(start, i))
           /\ Pos >= Before(i + 1)

\* try_collect on a result set whose first row is not convertible and whose
\* second is.
C7_Witness ==
    /\ pc = "done" /\ op = "try_collect" /\ Res.ok
    /\ AtHead(start, 1)
    /\ batch[1].convs = <<FALSE, TRUE>>
    /\ Len(Res.val) = 2 /\ ~Res.val[1].good /\ Res.val[2].good

CollectionOps == Ops \ {"get_row", "drop_result"}

\* C8: a collection operation during which a packet read (or any other
\* step) failed returns that error, never a successful result.
C8_ErrorsAbort ==
    (pc = "done" /\ op \in CollectionOps /\ failed # "")
    => (~Res.ok /\ Res.err = failed)

\* A collect that had accumulated a row when a packet read failed.
C8_Witness ==
    /\ pc = "done" /\ op = "collect"
    /\ failed = "io"
    /\ acc # <<>>
    /\ ~Res.ok

\* C9: when read_result_set reads a local-infile request and no handler is
\* configured, the operation ends with the NoLocalInfileHandler error, and
\* that step reads the request and nothing else, writes nothing and leaves
\* the pending result as it was.
C9_NoHandlerNoUpload ==
    [][(pc = "read_result_set" /\ ~handler /\ wire # <<>>
            /\ Head(wire).t = "infile" /\ wire' # wire)
       => /\ pc' = "done"
          /\ ret' = Err("NoLocalInfileHandler")
          /\ result' = Some([op |-> op, r |-> Err("NoLocalInfileHandler")])
          /\ pending' = pending
          /\ sent' = sent
          /\ wire' = Tail(wire)]_vars

\* The request arrived at the boundary of a result set, with no handler.
C9_Witness ==
    /\ pc = "done" /\ ~handler
    /\ ~Res.ok /\ Res.err = "NoLocalInfileHandler"
    /\ resp[Pos].t = "infile"
    /\ pending # None
    /\ sent = <<>>

\* C10: a get_row started with no result set pending has returned None at
\* once: no packet read or written, and the pending result, the status
\* flags, the sequence id and the wire as they were.
C10_EmptyPullNoIo ==
    (op = "get_row" /\ start.pending = None)
    => /\ pc = "done"
       /\ Res = Ok(None)
       /\ io = 0
       /\ Snapshot = start

\* A get_row after the whole response was read.
C10_Witness ==
    /\ pc = "done" /\ op = "get_row"
    /\ start.pending = None
    /\ start.pos = Len(resp) /\ Len(resp) > 1
    /\ Res = Ok(None)

\* The first packet of the answer to statement i.
FirstPacket(i) == resp[Before(i) + 1]

\* Packets read_result_set reads for statement i: an OK packet; a request and
\* its acknowledgement; a column count and that many column definitions.
HeaderLen(i) ==
    CASE FirstByte(FirstPacket(i)) = 0 -> 1
      [] FirstByte(FirstPacket(i)) = 251 -> 2
      [] OTHER -> 1 + FirstPacket(i).n

\* The pending result C11 states for statement i.
Classified(i) ==
    CASE FirstByte(FirstPacket(i)) = 0 -> None
      [] FirstByte(FirstPacket(i)) = 251 -> None
      [] OTHER ->
            IF FirstPacket(i).n > 0
            THEN Some([proto |-> P, columns |-> [rs |-> i, n |-> FirstPacket(i).n]])
            ELSE None

\* An operation has returned successfully and the last packets it read are
\* those read_result_set reads for statement i.
JustClassified(i) ==
    /\ i \in 1..Len(batch)
    /\ pc = "done" /\ Res.ok
    /\ start.pos < Pos
    /\ Pos = Before(i) + HeaderLen(i)

\* C11: after read_result_set has read the answer to a statement, the
\* pending result is None if the first packet began with 0x00, None if it
\* began with 0xFB (and the upload was acknowledged), and otherwise
\* Some(meta) of the c columns counted by the first packet, tagged with the
\* reader's protocol, if c > 0, and None if c = 0.  After a query whose
\* first answer is not a result set, is_empty() is true and columns_ref()
\* is empty.
C11_Classification ==
    \A i \in 1..Len(batch) :
        JustClassified(i)
        => /\ pending = Classified(i)
           /\ (op = "query" /\ FirstByte(FirstPacket(1)) \in {0, 251})
              => (is_empty(St) /\ columns_ref(St) = None)

\* The query was answered with a header of zero columns, in the three-byte
\* form: no result set is pending.
C11_Witness ==
    /\ JustClassified(1)
    /\ op = "query"
    /\ FirstByte(FirstPacket(1)) = 252 /\ FirstPacket(1).n = 0
    /\ pending = None

\* The query was answered with a header of two columns.
C11_WitnessColumns ==
    /\ JustClassified(1)
    /\ op = "query"
    /\ FirstPacket(1).t = "hdr" /\ FirstPacket(1).n = 2
    /\ Pos = 3
    /\ pending = Some([proto |-> "Text", columns |-> [rs |-> 1, n |-> 2]])

\* The query was answered with an OK packet.
C11_WitnessOk ==
    /\ JustClassified(1)
    /\ op = "query"
    /\ FirstByte(FirstPacket(1)) = 0
    /\ is_empty(St)

\* The query was answered with a local-infile request, and the upload done.
C11_WitnessInfile ==
    /\ JustClassified(1)
    /\ op = "query"
    /\ FirstByte(FirstPacket(1)) = 251
    /\ Pos = 2 /\ pending = None

\* A pull crossed from one result set into the next, whose header was
\* classified.
C11_WitnessBoundary ==
    /\ JustClassified(2)
    /\ op = "get_row"
    /\ FirstPacket(2).t = "hdr"
    /\ pending = Some([proto |-> "Text", columns |-> [rs |-> 2, n |-> 1]])

\* C12: a call of is_empty(), columns_ref() or columns() reads and writes no
\* packet, leaves the pending result, the status flags and the wire as
\* they were, and returns what the previous call of the same accessor
\* returned if no operation ran in between.
C12_AccessorsPure ==
    [][(pc = "idle" /\ pc' = "idle")
       => /\ UNCHANGED <<pending, status_more, wire, sent, seq_id, synced, alive, io>>
          /\ seen'.f \in Accessors
          /\ seen.f = seen'.f => seen'.v = seen.v]_vars

\* columns_ref() was called while a result set was pending, and returned
\* its columns.
C12_Witness ==
    /\ pc = "idle"
    /\ seen.f = "columns_ref" /\ seen.v = Some(ColumnsOf(1))
    /\ pending = Some(MetaOf(1))
    /\ Pos > RowsBegin(1)

\* What the packets consumed so far make pending: the columns of result
\* set i when its header is read and its terminal packet is not.
FramingPending ==
    IF \E i \in 1..Len(batch) :
            /\ batch[i].kind = "rs"
            /\ Pos \in RowsBegin(i)..(RowsBegin(i) + NRows(i))
    THEN LET i == CHOOSE i \in 1..Len(batch) :
                    /\ batch[i].kind = "rs"
                    /\ Pos \in RowsBegin(i)..(RowsBegin(i) + NRows(i))
         IN  Some(MetaOf(i))
    ELSE None

\* C13: whenever no operation is in flight, also after an operation that
\* returned an error, the pending result is Some(meta) exactly when the
\* header of the result set of meta is consumed and its terminal packet is
\* not, and None otherwise.
C13_PendingAgreesWithFraming ==
    pc \in {"idle", "done"} => pending = FramingPending

\* The same, for operations that met no error.
C13_PendingAgreesNoError ==
    (pc = "done" /\ failed = "") => pending = FramingPending

\* C13 for connections whose stream is still open: also violated.
C13_PendingAgreesWhileOpen ==
    (pc \in {"idle", "done"} /\ alive) => pending = FramingPending

\* C14: whenever the reader is about to read the header of the next queued
\* result set (in get_row_raw at a boundary, or in drop_result, with or
\* without a result set pending), sync_seq_id ran after the last packet was
\* read.
C14_SyncBeforeNextHeader ==
    (pc = "read_result_set" /\ op # "query") => synced

\* The same for the header reads that get_row_raw starts.
C14_SyncInPull ==
    (pc = "read_result_set" /\ stack # <<>> /\ Head(stack) = "get_row_raw_ret")
    => synced

\* C15 as stated: the first read that returns less than a chunk is the last
\* one, so while the upload loop is still to read, every packet written so
\* far carried a full chunk.
C15_Orig_ShortReadIsLast ==
    pc = "infile_loop" => \A i \in 1..Len(sent) : sent[i] = ChunkSize

\* C15 amended: the first read that returns 0 bytes is the last one.  While
\* the loop is still to read, every packet written so far carried data
\* (full or short); once it has left the loop, the last packet written is
\* the empty one, it is the only empty one, and the source is exhausted.
C15_ZeroReadIsLast ==
    /\ pc = "infile_loop" => \A i \in 1..Len(sent) : sent[i] > 0
    /\ pc = "infile_ack"
       => /\ sent # <<>>
          /\ sent[Len(sent)] = 0
          /\ \A i \in 1..(Len(sent) - 1) : sent[i] > 0
          /\ src_left = 0

\* The loop is about to read again after it wrote a short chunk, and the
\* source has more.
C15_Witness ==
    /\ pc = "infile_loop"
    /\ \E i \in 1..Len(sent) : sent[i] > 0 /\ sent[i] < ChunkSize
    /\ src_left > 0

\* C16: in an upload, packets are written only by the loop and the pending
\* result is not touched while the handler and the loop run; the
\* acknowledgement is read when the packets written are data packets and
\* then one empty packet, that step reads the acknowledgement and no other
\* packet, writes nothing and leaves the pending result None; and when the
\* source, a write or the acknowledgement read fails, the operation returns
\* the error and the pending result is as it was.
C16_UploadOrder ==
    [][/\ Len(sent') > Len(sent) => pc = "infile_loop"
       /\ (pc \in {"handler_handle", "infile_loop"}) => pending' = pending
       /\ (pc = "infile_ack" /\ wire' # wire)
          => /\ sent # <<>> /\ sent[Len(sent)] = 0
             /\ \A i \in 1..(Len(sent) - 1) : sent[i] > 0
             /\ IsAck(Head(wire)) /\ wire' = Tail(wire)
             /\ sent' = <<>>
             /\ failed' = ""
             /\ pending' = None
       /\ (pc \in {"handler_handle", "infile_loop", "infile_ack"} /\ failed' # "")
          => /\ pc' = "done" /\ ~ret'.ok /\ ret'.err = failed'
             /\ wire' = wire
             /\ pending' = pending]_vars

\* A pull crossed from a result set into a LOAD DATA LOCAL INFILE statement
\* and the upload completed: the columns that were pending are gone.
C16_Witness ==
    /\ pc = "done" /\ op = "get_row" /\ Res.ok
    /\ Len(batch) = 2 /\ batch[2].kind = "infile"
    /\ Pos = Len(resp)
    /\ start.pending # None /\ pending = None
    /\ sent = <<>>
    /\ io >= 4

\* The acknowledgement read failed: the pending result is still there.
C16_WitnessAckFailed ==
    /\ pc = "done" /\ op = "get_row" /\ ~Res.ok
    /\ Len(batch) = 2 /\ batch[2].kind = "infile"
    /\ Len(sent) = 2 /\ sent[2] = 0
    /\ pending # None

\* C17: a drop_result in flight, started in any state the reader can be
\* in, eventually returns if every await completes; when it returns
\* successfully the whole response is read, and (no upload being part of
\* it) with exactly one packet read for each packet that was unread.
C17_DropResultTerminates ==
    (op = "drop_result" /\ pc # "done")
    ~> /\ op = "drop_result" /\ pc = "done"
       /\ Res.ok => /\ Pos = Len(resp)
                    /\ ~HasInfile(batch) => io = Len(resp) - start.pos

\* drop_result, called at the head of a result set of two rows that another
\* result set follows, has read all the packets that were left, once each.
C17_Witness ==
    /\ pc = "done" /\ op = "drop_result" /\ Res.ok
    /\ Len(batch) = 2 /\ AllRs
    /\ AtHead(start, 1) /\ NRows(1) = 2
    /\ Pos = Len(resp)
    /\ io = Len(resp) - start.pos

\* The claim about the steps that IoCompletes is fair to: from an await,
\* every step of the program changes the position or the I/O count.
C17_AwaitStepsCounted ==
    [][(pc \in IoAwaits) => (pc' # pc \/ io' # io)]_vars

\* C18: get_row's expect("must be here") never fails; a row that get_row
\* returns is the packet just read, a row packet, decoded with the columns of
\* the header of the result set the packet belongs to, which is the pending
\* one; and a get_row called when all rows of a result set are pulled
\* returns None, whatever follows that result set.
C18_DecodeWithOwnColumns ==
    /\ failed # "must be here"
    /\ (pc = "done" /\ op = "get_row" /\ Res.ok /\ Res.val # None)
       => LET row == Unwrap(Res.val)
          IN  /\ resp[Pos].t = "row" /\ resp[Pos].rs = row.rs /\ resp[Pos].k = row.k
              /\ batch[row.rs].kind = "rs"
              /\ row.columns = ColumnsOf(row.rs)
              /\ pending = Some(MetaOf(row.rs))
    /\ \A i \in 1..Len(batch) :
          (pc = "done" /\ op = "get_row" /\ Res.ok
                /\ InRows(start, i) /\ Pulled(start, i) = NRows(i))
          => Res.val = None

\* A row of the second result set was decoded, with the one column of the
\* second header and not the two of the first.
C18_Witness ==
    /\ pc = "done" /\ op = "get_row" /\ Res.ok /\ Res.val # None
    /\ Len(batch) = 2 /\ AllRs
    /\ Unwrap(Res.val).rs = 2
    /\ Unwrap(Res.val).columns = [rs |-> 2, n |-> 1]
    /\ ColumnsOf(1) = [rs |-> 1, n |-> 2]

\* A pull at the boundary between two result sets returned None and left
\* the second one pending.
C18_WitnessBoundary ==
    /\ pc = "done" /\ op = "get_row" /\ Res.ok /\ Res.val = None
    /\ Len(batch) = 2 /\ AllRs
    /\ InRows(start, 1) /\ Pulled(start, 1) = NRows(1)
    /\ AtHead(Snapshot, 2)

RECURSIVE TotalLen(_)
TotalLen(slices) ==
    IF slices = <<>> THEN 0 ELSE Head(slices).len + TotalLen(Tail(slices))

\* The slices, put one after the other, are the first n bytes of the source:
\* each begins where the one before it ends, the first at offset 0, and
\* together they are n bytes long.
ConcatIsPrefix(slices, n) ==
    /\ \A i \in 1..Len(slices) : slices[i].off = TotalLen(SubSeq(slices, 1, i - 1))
    /\ TotalLen(slices) = n

\* C19: when the upload has written its last packet, the payloads written,
\* in write order, are the bytes of the source from first to last, each
\* once, and no packet is longer than the chunk size; while it is still
\* writing they are the bytes read so far.
C19_PayloadIsSource ==
    /\ pc = "infile_ack"
       => /\ ConcatIsPrefix(payload, file_len)
          /\ Len(payload) = Len(sent)
          /\ \A i \in 1..Len(payload) :
                payload[i].len = sent[i] /\ payload[i].len <= ChunkSize
    /\ pc = "infile_loop"
       => /\ ConcatIsPrefix(payload, file_len - src_left)
          /\ \A i \in 1..Len(payload) : payload[i].len <= ChunkSize

\* A source of one chunk and one byte that returns half a chunk at a time
\* was uploaded in four packets.
C19_Witness ==
    /\ pc = "infile_ack"
    /\ short_reads /\ file_len = ChunkSize + 1
    /\ Len(payload) = 4
    /\ payload[3] = [off |-> ChunkSize, len |-> 1]
    /\ payload[4] = [off |-> ChunkSize + 1, len |-> 0]

====
